---- MODULE Spec2Model ----
(***************************************************************************)
(* Model of the report ingestion core of studanky-strapi:                  *)
(*   - the Status Propagator: the Report afterCreate lifecycle hook        *)
(*     (api/report/content-types/report/lifecycles.ts),                    *)
(*   - the Report Authenticator: the is-authentic-report policy            *)
(*     (api/report/policies/is-authentic-report.ts),                       *)
(*   - the POST /reports route that runs the policy before report.create   *)
(*     (api/report/routes/report.ts),                                      *)
(*   - the Document Service middleware that filters springs by manager     *)
(*     (index.ts register), which every findOne and update on springs      *)
(*     made through strapi.documents passes, the policy's and the          *)
(*     propagator's included.                                              *)
(*                                                                         *)
(* Every await on the store is one atomic step of an invocation: the store *)
(* serves the call at that instant and the synchronous code that follows   *)
(* the await (up to the next await or the return) runs in the same step.   *)
(* A store call may also throw; each step draws that from BOOLEAN.         *)
(*                                                                         *)
(* Strings are sequences of one-character strings where their content is   *)
(* inspected (timestamp header, spring identifier, signature payload).     *)
(* A timestamp string (ISO-8601) is modelled by its instant in whole       *)
(* seconds; NewDate turns it into milliseconds since the epoch as          *)
(* `new Date(s)` does.  reported_at is a value of a validated datetime     *)
(* attribute, so it always parses.                                         *)
(***************************************************************************)
EXTENDS Integers, Sequences, FiniteSets, TLC

\* ------------------------------------------------------------------ bounds
\* number of propagator invocations
MaxInv == 2
\* instants (seconds) that reported_at and status_updated_at range over
MaxTime == 3
\* how far (seconds) the clock values reach around the ends of the replay window
ClockSkew == 3

Invs == 1..MaxInv
Times == 1..MaxTime

\* ------------------------------------------------------------------ values
\* documentId of the spring that exists in the store
SpringA == <<"a">>
\* a documentId no spring has (a dangling reference)
SpringGone == <<"b">>
SpringIds == {SpringA, SpringGone}
\* null / undefined / "" documentId
NoId == <<>>

\* status_updated_at: null, or a timestamp
Null == <<>>
At(t) == <<t>>

\* findOne's null
NoDoc == [exists |-> FALSE]

SpringStatus == {"is_flowing", "is_not_flowing", "unknown"}

\* the users a request can carry in ctx.state.user: none, a super admin, an
\* admin who is a manager of the spring, an admin who is not
SUPER_ADMIN_ROLE_CODE == "strapi-super-admin"
NoUser == [id |-> 0, roles |-> {}, anonymous |-> TRUE]
SuperAdmin == [id |-> 1, roles |-> {SUPER_ADMIN_ROLE_CODE}]
ManagerAdmin == [id |-> 2, roles |-> {"strapi-editor"}]
OtherAdmin == [id |-> 3, roles |-> {"strapi-editor", "strapi-author"}]
Users == {NoUser, SuperAdmin, ManagerAdmin, OtherAdmin}

\* A position is given in metres of arc along one meridian (lng = 0), where
\* the haversine distance of two points is the difference of the two.
\* managers holds the ids of the admin users in the managers relation.
\* name stands for the content of the spring that editors change, updatedAt
\* is the row's modification time (-1: before the clock's origin).
SpringDocument(s, u) ==
    [exists |-> TRUE, current_status |-> s, status_updated_at |-> u,
     lat |-> 1000, lng |-> 0, managers |-> {ManagerAdmin.id},
     name |-> "published name", updatedAt |-> -1]

\* a draft row: the draft carries an edit that is not published
DraftOf(doc) == [doc EXCEPT !.name = "edited name"]

\* the rows a spring starts with: the default (unknown, never reported), or
\* the status and time of an earlier report (the propagator never reads the
\* status of a row, so one status per time is enough: flowing at odd times)
SpringDocuments ==
    {SpringDocument("unknown", Null)}
        \cup {SpringDocument(IF t % 2 = 1 THEN "is_flowing" ELSE "is_not_flowing", At(t)) :
                t \in Times}

VARIABLES
    draft,      \* store: draft representation of each spring (NoDoc if none)
    published,  \* store: published representation of each spring (NoDoc if none)
    inv,        \* the propagator invocations
    auth,       \* the policy run on the current POST /reports request
    now,        \* the wall clock, Math.floor(Date.now() / 1000)
    hmacSecret, \* process.env.HMAC_SECRET
    user,       \* ctx.state.user of the request being served (strapi.requestContext)
    call        \* a Document Service call as it passes the registered middleware

vars == <<draft, published, inv, auth, now, hmacSecret, user, call>>

\* ------------------------------------------------------------------ helpers

\* new Date(isoString): milliseconds since the epoch
NewDate(s) == s * 1000

\* mutant of NewStatus: a report of no flow resets the status to unknown
NewStatus_Unknown(is_flowing) == IF is_flowing THEN "is_flowing" ELSE "unknown"

\* is_flowing ? 'is_flowing' : 'is_not_flowing'
NewStatus(is_flowing) == IF is_flowing THEN "is_flowing" ELSE "is_not_flowing"

\* updateData: the two fields a write carries
UpdateData(report) ==
    [current_status |-> NewStatus(report.is_flowing),
     status_updated_at |-> At(report.reported_at)]

\* a store update of one representation with `data`: the named fields are
\* replaced, every other field of the row is kept
ApplyUpdate(doc, data) ==
    [f \in DOMAIN doc |-> IF f \in DOMAIN data THEN data[f] ELSE doc[f]]

\* mutant of NotNewer: a report as old as the reference counts as newer
NotNewer_Strict(reported_at, referenceDoc) ==
    /\ referenceDoc.status_updated_at # Null
    /\ NewDate(reported_at) < NewDate(referenceDoc.status_updated_at[1])

\* statusUpdatedAtDate && reportedAtDate <= statusUpdatedAtDate
NotNewer(reported_at, referenceDoc) ==
    LET statusUpdatedAtDate ==
            IF referenceDoc.status_updated_at # Null
            THEN At(NewDate(referenceDoc.status_updated_at[1]))
            ELSE Null
    IN  /\ statusUpdatedAtDate # Null
        /\ NewDate(reported_at) <= statusUpdatedAtDate[1]

\* mutant of ReferenceDoc: the draft is the reference, published or not
ReferenceDoc_Draft(springPublished, springDraft) == springDraft

\* springPublished || springDraft
ReferenceDoc(springPublished, springDraft) ==
    IF springPublished.exists THEN springPublished ELSE springDraft

\* the row of a representation with this documentId, null if there is none
FindOne(rep, documentId) ==
    IF documentId \in DOMAIN rep THEN rep[documentId] ELSE NoDoc

\* ------------------------------------------------------------------ document service middleware
SPRING_UID == "api::spring.spring"
REPORT_UID == "api::report.report"
restrictedActions == {"findMany", "findOne", "update", "delete"}

\* the filter the middleware injects: managers: { id: { $eq: user.id } }
ManagersFilter(u) == [id |-> [eq |-> u.id]]

\* mutant of SpreadFilters: the existing filters are dropped
SpreadFilters_Replace(params, u) == [k \in {"managers"} |-> ManagersFilter(u)]

\* { ...params.filters, managers: ... }: the keys of the existing filters
\* are kept, the key managers is set (an undefined filters spreads to {})
SpreadFilters(params, u) ==
    LET filters == IF "filters" \in DOMAIN params THEN params.filters ELSE <<>>
    IN  [k \in DOMAIN filters \cup {"managers"} |->
            IF k = "managers" THEN ManagersFilter(u) ELSE filters[k]]

\* params.filters = ...: params with its filters property set
SetFilters(params, filters) ==
    [k \in DOMAIN params \cup {"filters"} |->
        IF k = "filters" THEN filters ELSE params[k]]

\* the middleware registered with strapi.documents.use: the context it hands
\* to next() for a call made while ctx.state.user is u
Middleware(context, u) ==
    IF context.uid # SPRING_UID THEN context
    ELSE IF context.action \notin restrictedActions THEN context
    ELSE IF u = NoUser THEN context
    ELSE IF \E role \in u.roles : role = SUPER_ADMIN_ROLE_CODE THEN context
    ELSE [context EXCEPT !.params = SetFilters(@, SpreadFilters(@, u))]

\* a spring row satisfies the filters of a call (the policy and the
\* propagator pass none, so only an injected managers filter can apply)
Matches(doc, params) ==
    ("filters" \in DOMAIN params /\ "managers" \in DOMAIN params.filters)
        => params.filters.managers.id.eq \in doc.managers

\* strapi.documents(SPRING_UID).findOne({documentId, status}), made through
\* the middleware in the request context of the caller
DocumentsFindOne(rep, documentId) ==
    LET context == Middleware([uid |-> SPRING_UID, action |-> "findOne",
                               params |-> [documentId |-> documentId]], user)
        doc == FindOne(rep, documentId)
    IN  IF doc.exists /\ Matches(doc, context.params) THEN doc ELSE NoDoc

\* ------------------------------------------------------------------ authenticator values
TIMESTAMP_MAX_AGE_SECONDS == 300
MAX_DISTANCE_METERS == 500

\* a header that is undefined or ""
NoHeader == <<>>
\* HMAC_SECRET unset or ""
NoSecret == <<>>
ServerSecret == <<"k">>
OtherSecret == <<"j">>

\* a number or NaN
NaN == [nan |-> TRUE]
Num(n) == [nan |-> FALSE, n |-> n]

Digits == {"0", "1", "2", "3", "4", "5", "6", "7", "8", "9"}
DigitValue(c) ==
    CASE c = "0" -> 0 [] c = "1" -> 1 [] c = "2" -> 2 [] c = "3" -> 3 [] c = "4" -> 4
      [] c = "5" -> 5 [] c = "6" -> 6 [] c = "7" -> 7 [] c = "8" -> 8 [] c = "9" -> 9

RECURSIVE SkipWhitespace(_)
SkipWhitespace(str) ==
    IF str # <<>> /\ Head(str) = " " THEN SkipWhitespace(Tail(str)) ELSE str

RECURSIVE LeadingDigits(_, _)
\* the value of the longest prefix of decimal digits of str, continuing acc
LeadingDigits(str, acc) ==
    IF str # <<>> /\ Head(str) \in Digits
    THEN LeadingDigits(Tail(str), acc * 10 + DigitValue(Head(str)))
    ELSE acc

\* parseInt(str, 10): leading whitespace is skipped, a sign is read, then the
\* longest run of digits; whatever follows is ignored; no digit gives NaN
ParseInt(str) ==
    LET s1 == SkipWhitespace(str)
        negative == s1 # <<>> /\ Head(s1) = "-"
        signed == s1 # <<>> /\ Head(s1) \in {"-", "+"}
        s2 == IF signed THEN Tail(s1) ELSE s1
    IN  IF s2 = <<>> \/ Head(s2) \notin Digits THEN NaN
        ELSE LET v == LeadingDigits(s2, 0)
             IN  Num(IF negative THEN 0 - v ELSE v)

\* `${timestamp}:${springDocumentId}`
Payload(timestamp, springDocumentId) == timestamp \o <<":">> \o springDocumentId

\* mutant of Hmac: the digest does not depend on the key
Hmac_Unkeyed(payload, secret) == <<[payload |-> payload, secret |-> <<>>]>>

\* HMAC-SHA256 as an ideal keyed hash: the digest (one symbol standing for
\* its 32 bytes) determines the payload and the key
Hmac(payload, secret) == <<[payload |-> payload, secret |-> secret]>>

\* digest("hex"): a hex string is a sequence of tokens, a token being the
\* hex digits of one digest symbol, or a character that is no hex digit
HexDigest(buffer) == [k \in 1..Len(buffer) |-> [hex |-> TRUE, bytes |-> buffer[k]]]
NotHex == [hex |-> FALSE]

\* generateExpectedSignature
GenerateExpectedSignature(timestamp, springDocumentId, secret) ==
    HexDigest(Hmac(Payload(timestamp, springDocumentId), secret))

RECURSIVE BufferFromHex(_)
\* Buffer.from(str, "hex"): decoding stops at the first character that is
\* not a hex digit
BufferFromHex(str) ==
    IF str = <<>> \/ ~Head(str).hex THEN <<>>
    ELSE <<Head(str).bytes>> \o BufferFromHex(Tail(str))

\* the comparison of policy lines 138-144
SignatureMatches(signature, expectedSignature) ==
    LET signatureBuffer == BufferFromHex(signature)
        expectedBuffer == BufferFromHex(expectedSignature)
    IN  /\ Len(signatureBuffer) = Len(expectedBuffer)
        /\ signatureBuffer = expectedBuffer

\* mutant of IsTimestampValid: the end of the window is excluded
IsTimestampValid_Exclusive(timestamp, clock) ==
    LET age == clock - timestamp
    IN  age >= 0 /\ age < TIMESTAMP_MAX_AGE_SECONDS

\* mutant of isTimestampValid: a timestamp never becomes too old
IsTimestampValid_NoExpiry(timestamp, clock) ==
    LET age == clock - timestamp
    IN  age >= 0

\* isTimestampValid, with the clock value it reads
IsTimestampValid(timestamp, clock) ==
    LET age == clock - timestamp
    IN  age >= 0 /\ age <= TIMESTAMP_MAX_AGE_SECONDS

\* a body coordinate: undefined (absent), null, a finite number, or a value
\* (such as a string of letters) that arithmetic turns into NaN
Undefined == [kind |-> "undefined"]
JsonNull == [kind |-> "null"]
NotANumber == [kind |-> "nan"]
Coord(n) == [kind |-> "number", n |-> n]

\* the number a coordinate value is in arithmetic
ToNumber(c) ==
    CASE c.kind = "number" -> Num(c.n)
      [] c.kind = "null" -> Num(0)
      [] OTHER -> NaN

Abs(n) == IF n < 0 THEN 0 - n ELSE n

\* haversineDistance on one meridian: EARTH_RADIUS_METERS * c is the length
\* of the arc between the two latitudes; NaN if an input is NaN
HaversineDistance(lat1, lng1, lat2, lng2) ==
    IF lat1.nan \/ lng1.nan \/ lat2.nan \/ lng2.nan THEN NaN
    ELSE Num(Abs(lat2.n - lat1.n))

\* mutant of TooFar: a distance of exactly MAX_DISTANCE_METERS is too far
TooFar_Inclusive(distance) == ~distance.nan /\ distance.n >= MAX_DISTANCE_METERS

\* distance > MAX_DISTANCE_METERS (false for NaN)
TooFar(distance) == ~distance.nan /\ distance.n > MAX_DISTANCE_METERS

IdleAuth ==
    [pc |-> "idle",
     request |-> [signature |-> NoHeader, timestampHeader |-> NoHeader,
                  spring |-> NoId, user_lat |-> Undefined, user_lng |-> Undefined],
     clock |-> 0,
     result |-> "none",
     reason |-> "none",
     lookups |-> 0]

\* mutant of PolicyChecks: the body is read before the timestamp is checked
PolicyChecks_BodyFirst(request, secret, clock) ==
    LET timestamp == ParseInt(request.timestampHeader)
    IN  IF request.signature = NoHeader
            THEN [result |-> "reject", reason |-> "missing signature"]
        ELSE IF request.spring = NoId
            THEN [result |-> "reject", reason |-> "missing spring"]
        ELSE IF request.timestampHeader = NoHeader
            THEN [result |-> "reject", reason |-> "missing timestamp"]
        ELSE IF timestamp.nan
            THEN [result |-> "reject", reason |-> "invalid timestamp format"]
        ELSE IF ~IsTimestampValid(timestamp.n, clock)
            THEN [result |-> "reject", reason |-> "timestamp expired or invalid"]
        ELSE IF secret = NoSecret
            THEN [result |-> "reject", reason |-> "secret not configured"]
        ELSE IF ~SignatureMatches(request.signature,
                    GenerateExpectedSignature(request.timestampHeader, request.spring, secret))
            THEN [result |-> "reject", reason |-> "invalid signature"]
        ELSE IF request.user_lat # Undefined /\ request.user_lng # Undefined
            THEN [result |-> "lookup", reason |-> "none"]
        ELSE [result |-> "accept", reason |-> "none"]

\* mutant of PolicyChecks: an absent secret falls back to a default key
PolicyChecks_DefaultKey(request, secret, clock) ==
    LET timestamp == ParseInt(request.timestampHeader)
        key == IF secret = NoSecret THEN OtherSecret ELSE secret
    IN  IF request.signature = NoHeader
            THEN [result |-> "reject", reason |-> "missing signature"]
        ELSE IF request.timestampHeader = NoHeader
            THEN [result |-> "reject", reason |-> "missing timestamp"]
        ELSE IF timestamp.nan
            THEN [result |-> "reject", reason |-> "invalid timestamp format"]
        ELSE IF ~IsTimestampValid(timestamp.n, clock)
            THEN [result |-> "reject", reason |-> "timestamp expired or invalid"]
        ELSE IF request.spring = NoId
            THEN [result |-> "reject", reason |-> "missing spring"]
        ELSE IF ~SignatureMatches(request.signature,
                    GenerateExpectedSignature(request.timestampHeader, request.spring, key))
            THEN [result |-> "reject", reason |-> "invalid signature"]
        ELSE IF request.user_lat # Undefined /\ request.user_lng # Undefined
            THEN [result |-> "lookup", reason |-> "none"]
        ELSE [result |-> "accept", reason |-> "none"]

\* the checks of the policy before its only await: policy lines 79-159.
\* "lookup" stands for reaching the spring lookup of the geo-fence.
PolicyChecks(request, secret, clock) ==
    LET timestamp == ParseInt(request.timestampHeader)
    IN  IF request.signature = NoHeader
            THEN [result |-> "reject", reason |-> "missing signature"]
        ELSE IF request.timestampHeader = NoHeader
            THEN [result |-> "reject", reason |-> "missing timestamp"]
        ELSE IF timestamp.nan
            THEN [result |-> "reject", reason |-> "invalid timestamp format"]
        ELSE IF ~IsTimestampValid(timestamp.n, clock)
            THEN [result |-> "reject", reason |-> "timestamp expired or invalid"]
        ELSE IF request.spring = NoId
            THEN [result |-> "reject", reason |-> "missing spring"]
        ELSE IF secret = NoSecret
            THEN [result |-> "reject", reason |-> "secret not configured"]
        ELSE IF ~SignatureMatches(request.signature,
                    GenerateExpectedSignature(request.timestampHeader, request.spring, secret))
            THEN [result |-> "reject", reason |-> "invalid signature"]
        ELSE IF request.user_lat # Undefined /\ request.user_lng # Undefined
            THEN [result |-> "lookup", reason |-> "none"]
        ELSE [result |-> "accept", reason |-> "none"]

\* ------------------------------------------------------------------ events
\* result.spring of the afterCreate event: absent/null, a {count} object
\* (relation not populated), or a populated {id, documentId}
ResultSpring ==
    {[kind |-> "null"], [kind |-> "count"]}
        \cup {[kind |-> "populated", documentId |-> s] : s \in SpringIds}

\* params.data.spring: absent, a bare documentId string (the REST short
\* form), or an object with any of: its own documentId, a connect list, a
\* set list.  Of a list only the documentId of its first entry is read;
\* NoId stands for a missing property, an empty list, or a first entry that
\* carries a numeric id only.
DataSpring ==
    {[kind |-> "absent"]}
        \cup {[kind |-> "string", documentId |-> s] : s \in SpringIds}
        \cup {[kind |-> "object", documentId |-> d, connect |-> c, set |-> t] :
                d \in SpringIds \cup {NoId}, c \in SpringIds \cup {NoId},
                t \in SpringIds \cup {NoId}}

\* the documentIds an event's payload entry mentions
DataIds(data_spring) ==
    IF data_spring.kind = "absent" THEN {}
    ELSE IF data_spring.kind = "string" THEN {data_spring.documentId}
    ELSE {data_spring.documentId, data_spring.connect, data_spring.set} \ {NoId}

\* lifecycles.ts 62-68: the documentId on result.spring
FromResult(result_spring) ==
    IF result_spring.kind = "populated" THEN result_spring.documentId ELSE NoId

\* lifecycles.ts 71-84: the payload's spring entry
FromData(data_spring) ==
    IF data_spring.kind # "object" THEN NoId
    ELSE IF data_spring.documentId # NoId THEN data_spring.documentId
    ELSE IF data_spring.connect # NoId THEN data_spring.connect
    ELSE data_spring.set

\* mutant of ResolveFromEvent: the payload is consulted before the result
ResolveFromEvent_PayloadFirst(result_spring, data_spring) ==
    IF FromData(data_spring) # NoId THEN FromData(data_spring)
    ELSE FromResult(result_spring)

\* the synchronous part of the resolution (lifecycles.ts 59-84)
ResolveFromEvent(result_spring, data_spring) ==
    IF FromResult(result_spring) # NoId THEN FromResult(result_spring)
    ELSE FromData(data_spring)

\* the event of an invocation that has not been entered
NoEvent == [result_spring |-> [kind |-> "null"], data_spring |-> [kind |-> "absent"]]

IdleInv ==
    [pc |-> "idle",
     event |-> NoEvent,
     report |-> [documentId |-> 0, is_flowing |-> FALSE, reported_at |-> 0,
                 spring |-> NoId],
     springDocumentId |-> NoId,
     springDraft |-> NoDoc,
     outcome |-> "none",
     wrote |-> <<>>,
     log |-> <<>>]

\* no Document Service call is being observed
IdleCall ==
    [pc |-> "idle", uid |-> REPORT_UID, action |-> "findOne",
     params |-> [documentId |-> NoId], passed |-> [documentId |-> NoId], nexts |-> 0]

\* ------------------------------------------------------------------ Init
Init ==
    /\ \E d \in SpringDocuments, p \in SpringDocuments \cup {NoDoc} :
        /\ draft = [s \in SpringIds |-> IF s = SpringA THEN DraftOf(d) ELSE NoDoc]
        /\ published = [s \in SpringIds |-> IF s = SpringA THEN p ELSE NoDoc]
    /\ inv = [i \in Invs |-> IdleInv]
    /\ auth = IdleAuth
    /\ now = 0
    /\ hmacSecret = ServerSecret
    /\ user = NoUser
    /\ call = IdleCall

\* ------------------------------------------------------------------ steps
Log(i, entry) == Append(inv[i].log, entry)

\* the invocation ends: return (or the exception leaves the hook); its
\* locals are gone
Finish(i, outcome, entry) ==
    [inv[i] EXCEPT !.pc = "done", !.outcome = outcome, !.log = Log(i, entry),
                   !.springDraft = NoDoc]

\* reports already handed to an invocation (a report is immutable, so a
\* documentId seen before comes with the same fields)
Started == {i \in Invs : inv[i].pc # "idle"}
KnownReports == {inv[i].report : i \in Started}
\* a new report: any measurement for the spring that exists; one report each
\* for a spring that is gone and for no spring (their measurement is never
\* read)
FreshReports ==
    LET nextId == Cardinality({r.documentId : r \in KnownReports}) + 1
    IN  {[documentId |-> nextId, is_flowing |-> f, reported_at |-> t, spring |-> SpringA] :
            f \in BOOLEAN, t \in Times}
        \cup {[documentId |-> nextId, is_flowing |-> FALSE, reported_at |-> 1, spring |-> s] :
                s \in {SpringGone, NoId}}

\* the afterCreate events that the creation of `report` can raise: the event
\* describes the report that was created
EventsOf(report) ==
    {e \in [result_spring : ResultSpring, data_spring : DataSpring] :
        /\ e.result_spring.kind = "populated" => e.result_spring.documentId = report.spring
        /\ DataIds(e.data_spring) \subseteq {report.spring}
        /\ (e.result_spring.kind = "null" /\ e.data_spring.kind = "absent")
                => report.spring = NoId}

\* afterCreate is entered: lifecycles.ts 50-111 up to the first await
Start(i) ==
    /\ inv[i].pc = "idle"
    /\ \A j \in Invs : j < i => inv[j].pc # "idle"
    /\ \E report \in KnownReports \cup FreshReports :
        \E id \in {ResolveFromEvent(e.result_spring, e.data_spring) : e \in EventsOf(report)} :
               inv' = [inv EXCEPT ![i] =
                    [@ EXCEPT !.report = report,
                              !.springDocumentId = id,
                              !.pc = IF id = NoId THEN "findReport" ELSE "findDraft",
                              !.log = IF id = NoId THEN <<>>
                                      ELSE <<"info: propagating">>]]
    /\ UNCHANGED <<draft, published, auth, now, hmacSecret, user, call>>

\* await findOne(report, populate spring): lifecycles.ts 87-111.
\* This call is outside the try block: a failure leaves the hook as an
\* exception.
FindReport(i) ==
    /\ inv[i].pc = "findReport"
    /\ \E fails \in BOOLEAN :
        inv' = [inv EXCEPT ![i] =
            IF fails THEN Finish(i, "thrown", "exception")
            ELSE IF inv[i].report.spring = NoId
                 THEN Finish(i, "skippedNotLinked", "debug: no spring linked")
            ELSE [@ EXCEPT !.springDocumentId = inv[i].report.spring,
                           !.pc = "findDraft",
                           !.log = Log(i, "info: propagating")]]
    /\ UNCHANGED <<draft, published, auth, now, hmacSecret, user, call>>

\* mutant of FindDraft: a missing draft does not end the invocation
FindDraft_Continues(i) ==
    /\ inv[i].pc = "findDraft"
    /\ \E fails \in BOOLEAN :
        inv' = [inv EXCEPT ![i] =
            IF fails THEN Finish(i, "failed", "error: failed to propagate")
            ELSE [@ EXCEPT !.pc = "findPublished",
                           !.springDraft = DocumentsFindOne(draft, inv[i].springDocumentId)]]
    /\ UNCHANGED <<draft, published, auth, now, hmacSecret, user, call>>

\* await findOne(spring, status draft): lifecycles.ts 116-129
FindDraft(i) ==
    /\ inv[i].pc = "findDraft"
    /\ \E fails \in BOOLEAN :
        LET springDraft == DocumentsFindOne(draft, inv[i].springDocumentId)
        IN  inv' = [inv EXCEPT ![i] =
                IF fails THEN Finish(i, "failed", "error: failed to propagate")
                ELSE IF ~springDraft.exists
                     THEN Finish(i, "draftNotFound", "warn: draft not found")
                ELSE [@ EXCEPT !.pc = "findPublished",
                               !.springDraft = springDraft]]
    /\ UNCHANGED <<draft, published, auth, now, hmacSecret, user, call>>

\* mutant of WriteTarget: the draft alone is written, published or not
WriteTarget_DraftOnly(springPublished) == "updateDraftOnly"

\* if (!springPublished) the draft alone is written, else the published
\* row first: lifecycles.ts 179-189
WriteTarget(springPublished) ==
    IF springPublished.exists THEN "updatePublished" ELSE "updateDraftOnly"

\* await findOne(spring, status published), then the newer-than rule and
\* the choice of the write: lifecycles.ts 134-179
FindPublished(i) ==
    /\ inv[i].pc = "findPublished"
    /\ \E fails \in BOOLEAN :
        LET springPublished == DocumentsFindOne(published, inv[i].springDocumentId)
            referenceDoc == ReferenceDoc(springPublished, inv[i].springDraft)
        IN  inv' = [inv EXCEPT ![i] =
                IF fails THEN Finish(i, "failed", "error: failed to propagate")
                ELSE IF NotNewer(inv[i].report.reported_at, referenceDoc)
                     THEN Finish(i, "skippedNotNewer", "info: skipping, not newer")
                \* springDraft is not read after this point
                ELSE [@ EXCEPT !.pc = WriteTarget(springPublished),
                               !.springDraft = NoDoc]]
    /\ UNCHANGED <<draft, published, auth, now, hmacSecret, user, call>>

\* mutant of UpdateDraftRow: the draft write carries the status only
UpdateDraftRow_StatusOnly(i) ==
    [draft EXCEPT ![inv[i].springDocumentId] =
        ApplyUpdate(@, [current_status |-> NewStatus(inv[i].report.is_flowing)])]

\* the Document Service update of the draft row with updateData, made
\* through the middleware: a row the call's filters exclude is not updated
UpdateDraftRow(i) ==
    LET context == Middleware([uid |-> SPRING_UID, action |-> "update",
                               params |-> [documentId |-> inv[i].springDocumentId]], user)
    IN  IF Matches(draft[inv[i].springDocumentId], context.params)
        THEN [draft EXCEPT ![inv[i].springDocumentId] =
                ApplyUpdate(@, UpdateData(inv[i].report))]
        ELSE draft

\* the data of the db.query update: the two fields and updatedAt
\* (lifecycles.ts 199-203)
PublishedData(report) ==
    [current_status |-> NewStatus(report.is_flowing),
     status_updated_at |-> At(report.reported_at),
     updatedAt |-> now]

\* mutant of UpdatePublishedRow: a conditional write, which leaves a row
\* alone that is not older than the report
UpdatePublishedRow_Conditional(i) ==
    IF NotNewer(inv[i].report.reported_at, published[inv[i].springDocumentId])
    THEN published
    ELSE [published EXCEPT ![inv[i].springDocumentId] =
            ApplyUpdate(@, PublishedData(inv[i].report))]

\* mutant of UpdatePublishedRow: the published row is rewritten from the
\* draft, as publishing the document would
UpdatePublishedRow_Sync(i) ==
    [published EXCEPT ![inv[i].springDocumentId] =
        ApplyUpdate(draft[inv[i].springDocumentId], PublishedData(inv[i].report))]

\* the db.query update of the row with publishedAt not null
UpdatePublishedRow(i) ==
    [published EXCEPT ![inv[i].springDocumentId] =
        ApplyUpdate(@, PublishedData(inv[i].report))]

\* spring never published: await documents.update(draft): lifecycles.ts 179-188
UpdateDraftOnly(i) ==
    /\ inv[i].pc = "updateDraftOnly"
    /\ \E fails \in BOOLEAN :
        IF fails
        THEN /\ inv' = [inv EXCEPT ![i] = Finish(i, "failed", "error: failed to propagate")]
             /\ UNCHANGED draft
        ELSE /\ draft' = UpdateDraftRow(i)
             /\ inv' = [inv EXCEPT ![i] =
                    [Finish(i, "applied", "info: updated draft (not published yet)")
                        EXCEPT !.wrote = Append(@, "draft")]]
    /\ UNCHANGED <<published, auth, now, hmacSecret, user, call>>

\* mutant of UpdatePublished: each write has its own error handling, so the
\* draft write follows a failed published write
UpdatePublished_ThenDraftAnyway(i) ==
    /\ inv[i].pc = "updatePublished"
    /\ \E fails \in BOOLEAN :
        IF fails
        THEN /\ inv' = [inv EXCEPT ![i] =
                    [@ EXCEPT !.pc = "updateDraft",
                              !.log = Log(i, "error: failed to propagate")]]
             /\ UNCHANGED published
        ELSE /\ published' = UpdatePublishedRow(i)
             /\ inv' = [inv EXCEPT ![i] =
                    [@ EXCEPT !.pc = "updateDraft",
                              !.wrote = Append(@, "published"),
                              !.log = Log(i, "info: updated published")]]
    /\ UNCHANGED <<draft, auth, now, hmacSecret, user, call>>

\* published exists, first write: await db.query.update(published): lifecycles.ts 189-208
UpdatePublished(i) ==
    /\ inv[i].pc = "updatePublished"
    /\ \E fails \in BOOLEAN :
        IF fails
        THEN /\ inv' = [inv EXCEPT ![i] = Finish(i, "failed", "error: failed to propagate")]
             /\ UNCHANGED published
        ELSE /\ published' = UpdatePublishedRow(i)
             /\ inv' = [inv EXCEPT ![i] =
                    [@ EXCEPT !.pc = "updateDraft",
                              !.wrote = Append(@, "published"),
                              !.log = Log(i, "info: updated published")]]
    /\ UNCHANGED <<draft, auth, now, hmacSecret, user, call>>

\* mutant of UpdateDraft: a failed draft write is attempted again
UpdateDraft_Retries(i) ==
    /\ inv[i].pc = "updateDraft"
    /\ \E fails \in BOOLEAN :
        IF fails
        THEN /\ inv' = [inv EXCEPT ![i] =
                    [@ EXCEPT !.log = Log(i, "error: failed to propagate")]]
             /\ UNCHANGED draft
        ELSE /\ draft' = UpdateDraftRow(i)
             /\ inv' = [inv EXCEPT ![i] =
                    [Finish(i, "applied", "info: updated draft")
                        EXCEPT !.wrote = Append(@, "draft")]]
    /\ UNCHANGED <<published, auth, now, hmacSecret, user, call>>

\* published exists, second write: await documents.update(draft): lifecycles.ts 210-221
UpdateDraft(i) ==
    /\ inv[i].pc = "updateDraft"
    /\ \E fails \in BOOLEAN :
        IF fails
        THEN /\ inv' = [inv EXCEPT ![i] = Finish(i, "failed", "error: failed to propagate")]
             /\ UNCHANGED draft
        ELSE /\ draft' = UpdateDraftRow(i)
             /\ inv' = [inv EXCEPT ![i] =
                    [Finish(i, "applied", "info: updated draft")
                        EXCEPT !.wrote = Append(@, "draft")]]
    /\ UNCHANGED <<published, auth, now, hmacSecret, user, call>>

\* ------------------------------------------------------------------ authenticator steps
\* the timestamp headers a client sends
TimestampHeaders ==
    {NoHeader, <<"1">>, <<"2">>, <<"0", "1">>, <<" ", "2">>, <<"-", "1">>,
     <<"x">>, <<"1", "x">>, <<"1", ".", "5">>}

\* the signature headers a client sends with a request: none, the digest of
\* its own payload under the server's key, a digest of another timestamp,
\* spring or key, and digests with characters added or removed
SignatureHeaders(timestampHeader, spring) ==
    LET good == GenerateExpectedSignature(timestampHeader, spring, ServerSecret)
    IN  {NoHeader,
         good,
         GenerateExpectedSignature(<<"3">>, spring, ServerSecret),
         GenerateExpectedSignature(timestampHeader, <<"c">>, ServerSecret),
         GenerateExpectedSignature(timestampHeader, spring, OtherSecret),
         good \o <<NotHex>>,
         good \o good,
         <<NotHex>>}

UserLats == {Undefined, JsonNull, NotANumber, Coord(1000), Coord(500), Coord(499), Coord(1501)}
UserLngs == {Undefined, NotANumber, Coord(0)}

Clocks == (0..ClockSkew) \cup {TIMESTAMP_MAX_AGE_SECONDS + k : k \in 0..ClockSkew}

\* the wall clock advances
Tick ==
    /\ auth.pc = "idle"
    /\ \E t \in Clocks : t > now /\ now' = t
    /\ UNCHANGED <<draft, published, inv, auth, hmacSecret, user, call>>

\* the policy runs on `request` up to its only await: policy lines 63-159
\* and, when no coordinates came, 191-201
PolicyEntered(request) ==
    LET checked == PolicyChecks(request, hmacSecret, now)
    IN  [pc |-> IF checked.result = "lookup" THEN "findSpring" ELSE "done",
         request |-> request,
         clock |-> now,
         result |-> IF checked.result = "lookup" THEN "none" ELSE checked.result,
         reason |-> checked.reason,
         lookups |-> 0]

\* a POST /reports request reaches the policy
Authenticate ==
    /\ auth.pc = "idle"
    /\ \E timestampHeader \in TimestampHeaders, spring \in SpringIds \cup {NoId},
          user_lat \in UserLats, user_lng \in UserLngs :
        \E signature \in SignatureHeaders(timestampHeader, spring) :
            auth' = PolicyEntered([signature |-> signature,
                                   timestampHeader |-> timestampHeader,
                                   spring |-> spring,
                                   user_lat |-> user_lat, user_lng |-> user_lng])
    /\ UNCHANGED <<draft, published, inv, now, hmacSecret, user, call>>

\* the geo-fence once the spring lookup has returned: policy lines 167-201
GeoFence(request, spring) ==
    IF ~spring.exists
        THEN [result |-> "reject", reason |-> "spring not found"]
    ELSE IF TooFar(HaversineDistance(ToNumber(request.user_lat), ToNumber(request.user_lng),
                                     Num(spring.lat), Num(spring.lng)))
        THEN [result |-> "reject", reason |-> "too far from spring"]
    ELSE [result |-> "accept", reason |-> "none"]

\* await findOne(spring, status published, fields lat lng): policy lines 161-201.
\* The policy has no try block: a failing lookup leaves it as an exception.
AuthFindSpring ==
    /\ auth.pc = "findSpring"
    /\ \E fails \in BOOLEAN :
        LET checked == GeoFence(auth.request, DocumentsFindOne(published, auth.request.spring))
        IN  auth' = [auth EXCEPT !.pc = "done",
                                 !.lookups = @ + 1,
                                 !.result = IF fails THEN "thrown" ELSE checked.result,
                                 !.reason = IF fails THEN "exception" ELSE checked.reason]
    /\ UNCHANGED <<draft, published, inv, now, hmacSecret, user, call>>

\* the policy has returned (or thrown) and the request is answered; the next
\* request can come
AuthReturn ==
    /\ auth.pc = "done"
    /\ auth' = IdleAuth
    /\ UNCHANGED <<draft, published, inv, now, hmacSecret, user, call>>

\* ------------------------------------------------------------------ specifications
Quiet == \A j \in Invs : inv[j].pc \in {"idle", "done"}

\* a propagation that starts while no other is in progress
StartAlone(i) == Quiet /\ Start(i)

\* concurrent propagations: one invocation per created report, interleaved
\* at every store call (reports created in requests that carry no user)
Next ==
    \E i \in Invs :
        \/ Start(i)
        \/ FindReport(i)
        \/ FindDraft(i)
        \/ FindPublished(i)
        \/ UpdateDraftOnly(i)
        \/ UpdatePublished(i)
        \/ UpdateDraft(i)

Spec == Init /\ [][Next]_vars

\* the store call that invocation i is waiting for returns or fails
StoreCall(i) ==
    \/ FindReport(i)
    \/ FindDraft(i)
    \/ FindPublished(i)
    \/ UpdateDraftOnly(i)
    \/ UpdatePublished(i)
    \/ UpdateDraft(i)

\* concurrent propagations in which every store call returns or fails: an
\* await that is pending is eventually resumed
SpecFair == Init /\ [][Next]_vars /\ \A i \in Invs : WF_vars(StoreCall(i))

\* propagations executed one after another (no overlap)
NextSeq ==
    \E i \in Invs :
        \/ StartAlone(i)
        \/ FindReport(i)
        \/ FindDraft(i)
        \/ FindPublished(i)
        \/ UpdateDraftOnly(i)
        \/ UpdatePublished(i)
        \/ UpdateDraft(i)

SpecSeq == Init /\ [][NextSeq]_vars

\* the policy alone: requests checked one after another as the clock advances
InitAuth ==
    /\ \E p \in {SpringDocument("unknown", Null), NoDoc} :
        /\ draft = [s \in SpringIds |->
                        IF s = SpringA THEN DraftOf(SpringDocument("unknown", Null))
                        ELSE NoDoc]
        /\ published = [s \in SpringIds |-> IF s = SpringA THEN p ELSE NoDoc]
    /\ inv = [i \in Invs |-> IdleInv]
    /\ auth = IdleAuth
    /\ now \in Clocks
    /\ hmacSecret \in {ServerSecret, NoSecret}
    /\ user = NoUser
    /\ call = IdleCall

NextAuth ==
    \/ Tick
    \/ Authenticate
    \/ AuthFindSpring
    \/ AuthReturn

SpecAuth == InitAuth /\ [][NextAuth]_vars

\* ------------------------------------------------------------------ POST /reports
\* the positions a request of the pipeline reports: none, at the spring, or
\* 501 m from it
GatePositions ==
    {<<Undefined, Undefined>>, <<Coord(1000), Coord(0)>>, <<Coord(1501), Coord(0)>>}

\* the requests of the pipeline: unsigned, or signed for their spring and
\* the timestamp "1" under the server's key or another key, with that
\* timestamp or a malformed one, for the spring that exists or one that
\* does not
GateRequests ==
    {[signature |-> IF k = NoSecret THEN NoHeader
                    ELSE GenerateExpectedSignature(<<"1">>, spring, k),
      timestampHeader |-> timestampHeader, spring |-> spring,
      user_lat |-> position[1], user_lng |-> position[2]] :
        k \in {NoSecret, ServerSecret, OtherSecret},
        timestampHeader \in {<<"1">>, <<"x">>},
        spring \in SpringIds,
        position \in GatePositions}

\* a POST /reports request arrives while no other request is being served
\* (requests are counted with the invocations: MaxInv reports can be created)
GateRequest ==
    /\ auth.pc = "idle"
    /\ Quiet
    /\ \E i \in Invs : inv[i].pc = "idle"
    /\ \E request \in GateRequests : auth' = PolicyEntered(request)
    /\ UNCHANGED <<draft, published, inv, now, hmacSecret, user, call>>

\* mutant of HandlerRuns: the handler runs whatever the policy answered
HandlerRuns_Always == auth.pc = "done"

\* the route runs its handler only when the policy returned true:
\* routes/report.ts 27-34
HandlerRuns == auth.pc = "done" /\ auth.result = "accept"

\* report.create persists the report of the request and afterCreate is
\* entered for it (routes/report.ts 30, lifecycles.ts 50-111)
CreateReport(i) ==
    /\ HandlerRuns
    /\ inv[i].pc = "idle"
    /\ \A j \in Invs : j < i => inv[j].pc # "idle"
    /\ \E report \in {r \in FreshReports : r.spring = auth.request.spring} :
        \E id \in {ResolveFromEvent(e.result_spring, e.data_spring) : e \in EventsOf(report)} :
               inv' = [inv EXCEPT ![i] =
                    [@ EXCEPT !.report = report,
                              !.springDocumentId = id,
                              !.pc = IF id = NoId THEN "findReport" ELSE "findDraft",
                              !.log = IF id = NoId THEN <<>>
                                      ELSE <<"info: propagating">>]]
    /\ auth' = IdleAuth
    /\ UNCHANGED <<draft, published, now, hmacSecret, user, call>>

InitGate ==
    /\ \E p \in {SpringDocument("unknown", Null), NoDoc} :
        /\ draft = [s \in SpringIds |->
                        IF s = SpringA THEN DraftOf(SpringDocument("unknown", Null))
                        ELSE NoDoc]
        /\ published = [s \in SpringIds |-> IF s = SpringA THEN p ELSE NoDoc]
    /\ inv = [i \in Invs |-> IdleInv]
    /\ auth = IdleAuth
    /\ now = ClockSkew
    /\ hmacSecret = ServerSecret
    /\ user \in Users
    /\ call = IdleCall

\* the pipeline of POST /reports, one request after another, all carrying
\* the same user in their request context: policy, then the handler and the
\* propagation of the created report
NextGate ==
    \/ GateRequest
    \/ AuthFindSpring
    \/ AuthReturn
    \/ \E i \in Invs :
        \/ CreateReport(i)
        \/ FindReport(i)
        \/ FindDraft(i)
        \/ FindPublished(i)
        \/ UpdateDraftOnly(i)
        \/ UpdatePublished(i)
        \/ UpdateDraft(i)

SpecGate == InitGate /\ [][NextGate]_vars

\* ------------------------------------------------------------------ document service calls
\* the actions of the Document Service a call can name
DocumentActions == restrictedActions \cup {"create", "count"}

\* filters a caller passes: none of its own keys, a filter on another
\* field, a filter on managers, or both
CallerFilters ==
    {[name |-> [eq |-> "x"]],
     [managers |-> [id |-> [eq |-> 9]]],
     [name |-> [eq |-> "x"], managers |-> [id |-> [eq |-> 9]]]}

\* the params of a call: without a filters property, or with one
CallParams ==
    {[documentId |-> SpringA]}
        \cup {[documentId |-> SpringA, filters |-> f] : f \in CallerFilters}
        \cup {[filters |-> f, status |-> "draft"] : f \in CallerFilters}

\* strapi.documents(uid)[action](params) is called in a request carrying
\* some user: the call reaches the middleware (src/index.ts line 39)
CallEnters ==
    /\ call.pc = "idle"
    /\ \E uid \in {SPRING_UID, REPORT_UID}, action \in DocumentActions,
          params \in CallParams, u \in Users :
        /\ user' = u
        /\ call' = [pc |-> "called", uid |-> uid, action |-> action,
                    params |-> params, passed |-> params, nexts |-> 0]
    /\ UNCHANGED <<draft, published, inv, auth, now, hmacSecret>>

\* the middleware runs and calls next(): src/index.ts lines 39-87
MiddlewareRuns ==
    /\ call.pc = "called"
    /\ call' = [call EXCEPT
            !.pc = "passed",
            !.passed = Middleware([uid |-> call.uid, action |-> call.action,
                                   params |-> call.params], user).params,
            !.nexts = @ + 1]
    /\ UNCHANGED <<draft, published, inv, auth, now, hmacSecret, user>>

\* the wrapped operation has returned and the request is over
CallReturns ==
    /\ call.pc = "passed"
    /\ call' = IdleCall
    /\ user' = NoUser
    /\ UNCHANGED <<draft, published, inv, auth, now, hmacSecret>>

NextMw ==
    \/ CallEnters
    \/ MiddlewareRuns
    \/ CallReturns

\* the middleware alone, on one Document Service call after another
SpecMw == Init /\ [][NextMw]_vars

\* ------------------------------------------------------------------ resolution alone
\* afterCreate is entered with any event for a report, while no other
\* invocation is in progress; the event is kept to state the resolution
\* (lifecycles.ts 50-84)
ResolveEvent(i) ==
    /\ \A j \in Invs : inv[j].pc = "idle"
    /\ \E spring \in SpringIds \cup {NoId},
          e \in [result_spring : ResultSpring, data_spring : DataSpring] :
        LET id == ResolveFromEvent(e.result_spring, e.data_spring)
        IN  inv' = [inv EXCEPT ![i] =
                [@ EXCEPT !.report = [documentId |-> 1, is_flowing |-> TRUE,
                                      reported_at |-> 1, spring |-> spring],
                          !.event = e,
                          !.springDocumentId = id,
                          !.pc = IF id = NoId THEN "findReport" ELSE "findDraft",
                          !.log = IF id = NoId THEN <<>>
                                  ELSE <<"info: propagating">>]]
    /\ UNCHANGED <<draft, published, auth, now, hmacSecret, user, call>>

\* the resolution of the spring reference, up to the fetch of the draft
NextResolve ==
    \E i \in Invs :
        \/ ResolveEvent(i)
        \/ FindReport(i)

SpecResolve == Init /\ [][NextResolve]_vars

\* ================================================================== claims

\* the status time the newer-than rule compares with, as the store holds it
RefTime(sid) ==
    IF published[sid].exists THEN published[sid].status_updated_at
    ELSE draft[sid].status_updated_at

\* the two fields of a row
StatusOf(doc) == <<doc.current_status, doc.status_updated_at>>

\* the two fields a report stands for
ReportStatus(report) ==
    <<IF report.is_flowing THEN "is_flowing" ELSE "is_not_flowing", <<report.reported_at>>>>

\* the store changes only in a write step of an invocation
OnlyWritesChange ==
    (draft' # draft \/ published' # published)
        => \E i \in Invs : /\ inv[i].pc \in {"updateDraftOnly", "updatePublished", "updateDraft"}
                           /\ Len(inv'[i].wrote) = Len(inv[i].wrote) + 1

\* C1 (SpecSeq): a propagation that runs alone on a resolved spring whose
\* draft exists goes on to write exactly if the reference's status_updated_at
\* is null or reported_at is strictly later; otherwise it ends as skipped
\* and has written neither representation; the store changes in write steps
\* only.
C1_NewerThanRule ==
    [][/\ \A i \in Invs :
            (inv[i].pc = "findPublished" /\ inv'[i] # inv[i] /\ inv'[i].outcome # "failed")
            => LET ref == RefTime(inv[i].springDocumentId)
                   t == inv[i].report.reported_at
               IN  IF ref = Null \/ t > ref[1]
                   THEN /\ inv'[i].pc \in {"updateDraftOnly", "updatePublished"}
                        /\ inv'[i].outcome = "none"
                   ELSE /\ inv'[i].pc = "done"
                        /\ inv'[i].outcome = "skippedNotNewer"
                        /\ inv'[i].wrote = <<>>
                        /\ UNCHANGED <<draft, published>>
       /\ \A i \in Invs : inv[i].outcome = "skippedNotNewer" => inv[i].wrote = <<>>
       /\ OnlyWritesChange]_vars

\* C1 witness: a report with reported_at equal to the reference time T was
\* skipped, and the skipped run wrote nothing
C1_Witness ==
    \E i \in Invs :
        /\ inv[i].outcome = "skippedNotNewer"
        /\ inv[i].wrote = <<>>
        /\ RefTime(SpringA) = <<inv[i].report.reported_at>>

\* C2 (SpecSeq): when a propagation that runs alone on a published spring
\* ends as applied, draft and published hold the report's mapped status and
\* its reported_at.
C2_DraftPublishedSync ==
    [][\A i \in Invs :
            (inv[i].pc # "done" /\ inv'[i].outcome = "applied"
                /\ published[inv[i].springDocumentId].exists)
            => /\ StatusOf(published'[inv[i].springDocumentId]) = ReportStatus(inv[i].report)
               /\ StatusOf(draft'[inv[i].springDocumentId]) = ReportStatus(inv[i].report)]_vars

\* C2 witness: a propagation wrote published, then draft, and the two agree
C2_Witness ==
    \E i \in Invs :
        /\ Quiet
        /\ inv[i].outcome = "applied"
        /\ inv[i].wrote = <<"published", "draft">>
        /\ StatusOf(draft[SpringA]) = StatusOf(published[SpringA])
        /\ StatusOf(draft[SpringA]) = ReportStatus(inv[i].report)

\* ------------------------------------------------------------------ quiescence
AllDone == \A i \in Invs : inv[i].pc = "done"

\* every invocation was for the spring that exists and none hit a failing
\* store call
AllDoneClean ==
    \A i \in Invs : /\ inv[i].pc = "done"
                    /\ inv[i].springDocumentId = SpringA
                    /\ inv[i].outcome \in {"applied", "skippedNotNewer"}

Applied == {i \in Invs : inv[i].outcome = "applied"}

\* the greatest reported_at among the propagated reports
NewestTime ==
    CHOOSE m \in {inv[i].report.reported_at : i \in Invs} :
        \A i \in Invs : inv[i].report.reported_at <= m

\* the representations of the existing spring that exist
Representations == {d \in {draft[SpringA], published[SpringA]} : d.exists}

\* C3 (Spec): once all concurrent propagations for the spring have completed
\* (none failed, at least one was applied), each representation carries the
\* time of the report with the greatest reported_at and the status of a
\* report with that time.
C3_NewestReportWins ==
    (AllDoneClean /\ Applied # {})
        => \A d \in Representations :
              \E i \in Invs : /\ inv[i].report.reported_at = NewestTime
                              /\ StatusOf(d) = ReportStatus(inv[i].report)

C5_NoSilentDivergence ==
    (AllDone /\ Applied # {} /\ published[SpringA].exists
        /\ StatusOf(draft[SpringA]) # StatusOf(published[SpringA]))
        => \E i \in Invs : inv[i].outcome = "failed"

\* a second run of a report that an earlier invocation propagated
FirstRuns(j) ==
    {i \in Invs : i < j /\ inv[i].pc = "done"
                        /\ inv[i].report.documentId = inv[j].report.documentId}
Rerun(j) == inv[j].pc \notin {"idle", "done"} /\ FirstRuns(j) # {}

Newest == {i \in Invs : inv[i].report.reported_at = NewestTime}
FirstNewest == CHOOSE i \in Newest : \A k \in Newest : i <= k

\* C7 as stated (SpecSeq), read with a report newer than the initial status:
\* after the reports were propagated one after another without failure, each
\* representation carries the status and time of the report with the
\* greatest reported_at, whichever of the reports that is.
C7_ArrivalOrderIndependent ==
    (AllDoneClean /\ Applied # {})
        => \A d \in Representations : \A i \in Newest :
              StatusOf(d) = ReportStatus(inv[i].report)

\* C7 amended (SpecSeq): after the reports were propagated one after another
\* without failure: if one was applied, each representation carries the
\* greatest reported_at and the status of the first propagated report with
\* that time (so the result is the same in every order when the reports
\* with the greatest reported_at agree on is_flowing); if none was applied,
\* nothing was written and no reported_at is later than the reference time.
C7_NewestWinsFirstOnTies ==
    AllDoneClean
        => IF Applied # {}
           THEN \A d \in Representations :
                    StatusOf(d) = ReportStatus(inv[FirstNewest].report)
           ELSE /\ \A i \in Invs : inv[i].wrote = <<>>
                /\ RefTime(SpringA) # Null
                /\ \A i \in Invs : inv[i].report.reported_at <= RefTime(SpringA)[1]

\* C7 witness: two reports with the same greatest reported_at and opposite
\* is_flowing were propagated; the first one decided the status
C7_Witness ==
    \E i, j \in Invs :
        /\ AllDoneClean
        /\ i < j
        /\ inv[i].report.reported_at = NewestTime
        /\ inv[j].report.reported_at = NewestTime
        /\ inv[i].report.is_flowing # inv[j].report.is_flowing
        /\ inv[i].outcome = "applied"
        /\ inv[j].outcome = "skippedNotNewer"
        /\ \A d \in Representations : StatusOf(d) = ReportStatus(inv[i].report)

\* C8 (Spec): whichever store call of the propagator fails, afterCreate
\* returns normally: no exception leaves the hook.
C8_FailuresContained ==
    \A i \in Invs : inv[i].outcome # "thrown"

\* ------------------------------------------------------------------ the policy's checks
\* the checks of the request in auth, each stated on the request itself
SignaturePresent == Len(auth.request.signature) > 0
TimestampPresent == Len(auth.request.timestampHeader) > 0
TimestampParses == ~ParseInt(auth.request.timestampHeader).nan
\* now - timestamp, at the clock value the policy read
Age == auth.clock - ParseInt(auth.request.timestampHeader).n
AgeInWindow == TimestampParses /\ 0 <= Age /\ Age <= 300
SpringPresent == Len(auth.request.spring) > 0
SecretConfigured == Len(hmacSecret) > 0
SignatureGood ==
    BufferFromHex(auth.request.signature)
        = Hmac(auth.request.timestampHeader \o <<":">> \o auth.request.spring, hmacSecret)
BothCoordinates ==
    auth.request.user_lat.kind # "undefined" /\ auth.request.user_lng.kind # "undefined"
SpringFound ==
    auth.request.spring \in DOMAIN published /\ published[auth.request.spring].exists
GeoFencePasses ==
    BothCoordinates
        => /\ SpringFound
           /\ ~TooFar(HaversineDistance(ToNumber(auth.request.user_lat),
                                        ToNumber(auth.request.user_lng),
                                        Num(published[auth.request.spring].lat),
                                        Num(published[auth.request.spring].lng)))

\* the checks in the order of the claim
Checks ==
    <<SignaturePresent, TimestampPresent, TimestampParses, AgeInWindow,
      SpringPresent, SecretConfigured, SignatureGood, GeoFencePasses>>

\* the rejection reason of each check
Reasons ==
    <<{"missing signature"}, {"missing timestamp"}, {"invalid timestamp format"},
      {"timestamp expired or invalid"}, {"missing spring"}, {"secret not configured"},
      {"invalid signature"},
      {IF SpringFound THEN "too far from spring" ELSE "spring not found"}>>

Failing == {k \in 1..8 : ~Checks[k]}
FirstFailing == CHOOSE k \in Failing : \A m \in Failing : k <= m

\* C9 (SpecAuth): the policy accepts exactly if every check passes; a
\* rejection carries the reason of the first check that fails in the order
\* signature header, timestamp header, timestamp parses, age in window,
\* spring id, secret, signature, geo-fence; the spring is looked up only
\* after the first seven checks passed on a request with both coordinates,
\* and at most once.
C9_ChecksInOrder ==
    /\ (auth.pc = "done" /\ auth.result # "thrown")
        => /\ auth.result \in {"accept", "reject"}
           /\ auth.result = "accept" <=> Failing = {}
           /\ auth.result = "reject" => auth.reason \in Reasons[FirstFailing]
    /\ auth.pc = "findSpring" => auth.lookups = 0
    /\ (auth.pc = "findSpring" \/ auth.lookups > 0 \/ auth.result = "thrown")
        => /\ Failing \subseteq {8}
           /\ BothCoordinates
           /\ auth.lookups <= 1
    /\ (auth.pc = "done" /\ Failing \subseteq {8} /\ BothCoordinates) => auth.lookups = 1

\* C9 witness: a request that fails the timestamp format check, the spring
\* id check and the signature check was rejected for the timestamp format,
\* without a spring lookup
C9_Witness ==
    /\ auth.pc = "done"
    /\ auth.result = "reject"
    /\ auth.reason = "invalid timestamp format"
    /\ {3, 5, 7} \subseteq Failing
    /\ BothCoordinates
    /\ auth.lookups = 0

\* C10 (SpecAuth): a request that reaches the replay-window check passes it
\* exactly if 0 <= now - timestamp <= 300.
C10_ReplayWindow ==
    (auth.pc # "idle" /\ SignaturePresent /\ TimestampPresent /\ TimestampParses)
        => (auth.reason # "timestamp expired or invalid" <=> (0 <= Age /\ Age <= 300))

\* C10 witness: a request of age 300 passed the replay-window check and was
\* accepted
C10_Witness ==
    /\ auth.pc = "done"
    /\ TimestampParses
    /\ Age = 300
    /\ auth.result = "accept"

\* ------------------------------------------------------------------ the signature check
\* the hex digest the server computes for the request in auth
ExpectedSignature ==
    GenerateExpectedSignature(auth.request.timestampHeader, auth.request.spring, hmacSecret)

\* the request in auth passes every check that comes before the signature
\* comparison
ReachesSignatureCheck ==
    /\ auth.pc # "idle"
    /\ SignaturePresent /\ TimestampPresent /\ AgeInWindow
    /\ SpringPresent /\ SecretConfigured

\* C11 (SpecAuth): a request whose signature header is not the expected hex
\* digest is rejected at the signature check (a rejection, not an
\* exception), and no accepted request carries any other header value.
C11_SignatureMustBeDigest ==
    /\ (ReachesSignatureCheck /\ auth.request.signature # ExpectedSignature)
        => (auth.pc = "done" /\ auth.result = "reject"
                /\ auth.reason = "invalid signature")
    /\ (auth.pc = "done" /\ auth.result = "accept")
        => auth.request.signature = ExpectedSignature

\* C12 (SpecAuth): while HMAC_SECRET is absent every request is rejected,
\* whatever its headers and body: the policy returns the rejection (it
\* neither throws nor reaches the store), and a request that passes the
\* checks before the signature is rejected for the missing secret, so no
\* signature is computed under any key.
C12_AbsentSecretRejectsAll ==
    (hmacSecret = NoSecret /\ auth.pc # "idle")
        => /\ auth.pc = "done"
           /\ auth.result = "reject"
           /\ auth.lookups = 0
           /\ (SignaturePresent /\ TimestampPresent /\ AgeInWindow /\ SpringPresent)
                => auth.reason = "secret not configured"

\* C12 witness: with no secret configured, a request in the window that is
\* signed under another key was rejected for the missing secret
C12_Witness ==
    /\ hmacSecret = NoSecret
    /\ auth.pc = "done"
    /\ auth.result = "reject"
    /\ auth.reason = "secret not configured"
    /\ AgeInWindow /\ SpringPresent
    /\ auth.request.signature
        = GenerateExpectedSignature(auth.request.timestampHeader, auth.request.spring,
                                    OtherSecret)

\* ------------------------------------------------------------------ the geo-fence
\* the request in auth has passed the signature comparison
PassedSignatureCheck == ReachesSignatureCheck /\ SignatureGood

\* the distance the policy computes for the request in auth once the spring
\* was found
Distance ==
    HaversineDistance(ToNumber(auth.request.user_lat), ToNumber(auth.request.user_lng),
                      Num(published[auth.request.spring].lat),
                      Num(published[auth.request.spring].lng))

\* C13 (SpecAuth): for a request that passed the signature check and whose
\* spring lookup (if any) returned: with both coordinates in the body the
\* spring is looked up once, and the request is rejected when the spring is
\* not found or the distance is greater than 500 m and accepted when the
\* distance is at most 500 m; with a coordinate missing from the body the
\* spring is not looked up and the request is accepted.
C13_GeoFence ==
    (auth.pc = "done" /\ PassedSignatureCheck /\ auth.result # "thrown")
        => IF BothCoordinates
           THEN /\ auth.lookups = 1
                /\ ~SpringFound
                    => (auth.result = "reject" /\ auth.reason = "spring not found")
                /\ (SpringFound /\ ~Distance.nan /\ Distance.n > 500)
                    => (auth.result = "reject" /\ auth.reason = "too far from spring")
                /\ (SpringFound /\ ~Distance.nan /\ Distance.n <= 500)
                    => auth.result = "accept"
           ELSE /\ auth.lookups = 0
                /\ auth.result = "accept"

\* C13 witness: a request with both coordinates exactly 500 m from the
\* spring was accepted after one lookup
C13_Witness ==
    /\ auth.pc = "done"
    /\ PassedSignatureCheck
    /\ BothCoordinates
    /\ SpringFound
    /\ Distance = Num(500)
    /\ auth.lookups = 1
    /\ auth.result = "accept"

\* C14 (SpecAuth): whatever the headers, body, clock and store behaviour,
\* the policy ends by returning accept or reject: no exception reaches its
\* caller.
C14_AlwaysBoolean ==
    auth.pc = "done" => auth.result \in {"accept", "reject"}

\* ------------------------------------------------------------------ the gate
\* C15 (SpecGate): the policy's steps leave the store and the propagator
\* alone; a report is created, and its propagation entered, only in a step
\* taken from a state where the policy has accepted the request, and for the
\* spring of that request; a spring representation changes only in a write
\* step of a propagation so entered.
C15_PureGate ==
    [][/\ (auth.pc # "idle" /\ auth'.pc # "idle") => UNCHANGED <<draft, published, inv>>
       /\ (auth.pc = "done" /\ auth.result # "accept") => UNCHANGED <<draft, published, inv>>
       /\ \A i \in Invs :
            (inv[i].pc = "idle" /\ inv'[i].pc # "idle")
                => /\ auth.pc = "done" /\ auth.result = "accept"
                   /\ inv'[i].report.spring = auth.request.spring
       /\ OnlyWritesChange]_vars

\* C15 witness: a request was rejected by the geo-fence after the spring was
\* looked up; no report was ever created and the spring is as it was
C15_Witness ==
    /\ auth.pc = "done"
    /\ auth.result = "reject"
    /\ auth.lookups = 1
    /\ \A i \in Invs : inv[i].pc = "idle"
    /\ StatusOf(draft[SpringA]) = <<"unknown", Null>>
    /\ published[SpringA].exists /\ StatusOf(published[SpringA]) = <<"unknown", Null>>

\* ------------------------------------------------------------------ the timestamp format
RECURSIVE AllDigits(_)
AllDigits(str) == str = <<>> \/ (Head(str) \in Digits /\ AllDigits(Tail(str)))

\* the string is an integer: leading blanks and a sign allowed, then digits
\* and nothing else
IsIntegerString(str) ==
    LET s1 == SkipWhitespace(str)
        s2 == IF s1 # <<>> /\ Head(s1) \in {"-", "+"} THEN Tail(s1) ELSE s1
    IN  s2 # <<>> /\ AllDigits(s2)

\* C16 (SpecAuth): a request with a signature header whose timestamp header
\* is present but not an integer is rejected at the timestamp-format check.
C16_NonIntegerRejected ==
    (auth.pc # "idle" /\ SignaturePresent /\ TimestampPresent
        /\ ~IsIntegerString(auth.request.timestampHeader))
        => (auth.pc = "done" /\ auth.result = "reject"
                /\ auth.reason = "invalid timestamp format")

\* ------------------------------------------------------------------ the request context
\* C17 (SpecGate): the outcome of the policy and of the propagator is the
\* one a run with no user in the request context has: the geo-fence answers
\* as it does on the spring row the store holds, and a propagation ends as
\* "draft not found" only if the store holds no draft of the spring.
C17_ContextIndependent ==
    /\ (auth.pc = "done" /\ auth.lookups = 1 /\ auth.result # "thrown")
        => LET unfiltered == GeoFence(auth.request, FindOne(published, auth.request.spring))
           IN  auth.result = unfiltered.result /\ auth.reason = unfiltered.reason
    /\ \A i \in Invs :
        inv[i].outcome = "draftNotFound" => ~FindOne(draft, inv[i].springDocumentId).exists

\* ------------------------------------------------------------------ sign and verify
\* the inputs a client signs: a timestamp header, a spring id and a key
SignedInputs ==
    (TimestampHeaders \cup {<<"3">>}) \X (SpringIds \cup {<<"c">>})
        \X {ServerSecret, OtherSecret}

\* how many of the three inputs differ from the ones the server signs for
\* the request in auth
Changed(x) ==
    Cardinality({k \in 1..3 :
        x[k] # <<auth.request.timestampHeader, auth.request.spring, hmacSecret>>[k]})

MustFilter ==
    /\ call.uid = "api::spring.spring"
    /\ call.action \in {"findMany", "findOne", "update", "delete"}
    /\ user # NoUser
    /\ "strapi-super-admin" \notin user.roles

\* the filters of the call as its caller passed them (none is no key)
OwnFilterKeys ==
    IF "filters" \in DOMAIN call.params THEN DOMAIN call.params.filters ELSE {}

\* C19 (SpecMw): a call that has passed the middleware has invoked the
\* wrapped operation exactly once; in the filtering case its filters carry
\* managers.id = user.id and every other filter and parameter of the caller
\* unchanged; in every other case its parameters are the caller's.
C19_AdminRecordFilter ==
    /\ call.pc \in {"idle", "called"} => call.nexts = 0
    /\ call.pc = "passed"
        => /\ call.nexts = 1
           /\ IF MustFilter
              THEN /\ DOMAIN call.passed = DOMAIN call.params \cup {"filters"}
                   /\ \A k \in DOMAIN call.params \ {"filters"} :
                        call.passed[k] = call.params[k]
                   /\ DOMAIN call.passed.filters = OwnFilterKeys \cup {"managers"}
                   /\ call.passed.filters.managers = [id |-> [eq |-> user.id]]
                   /\ \A k \in OwnFilterKeys \ {"managers"} :
                        call.passed.filters[k] = call.params.filters[k]
              ELSE call.passed = call.params

\* C19 witness: a findMany on springs with a filter on name, made by an
\* admin who is no super admin, was passed on with both filters
C19_Witness ==
    /\ call.pc = "passed"
    /\ call.nexts = 1
    /\ MustFilter
    /\ call.action = "findMany"
    /\ OwnFilterKeys = {"name"}
    /\ call.passed.filters.name = call.params.filters.name
    /\ call.passed.filters.managers.id.eq = user.id

TimeOf(doc) == IF doc.status_updated_at = Null THEN 0 ELSE doc.status_updated_at[1]

\* C21 (SpecSeq): the decision of a propagation that runs alone is skip
\* exactly if reported_at is not later than the published row's non-null
\* status_updated_at when a published row exists, and not later than the
\* draft's when none exists; with published < reported_at <= draft it goes
\* on to write the published row and ends with both rows carrying the
\* report, with draft < reported_at <= published it is skipped.
C21_ComparisonReference ==
    [][\A i \in Invs :
        LET sid == inv[i].springDocumentId
            t == inv[i].report.reported_at
        IN  /\ (inv[i].pc = "findPublished" /\ inv'[i] # inv[i]
                    /\ inv'[i].outcome # "failed")
                => IF published[sid].exists
                   THEN /\ inv'[i].outcome = "skippedNotNewer"
                            <=> (TimeOf(published[sid]) > 0 /\ t <= TimeOf(published[sid]))
                        /\ (TimeOf(published[sid]) < t /\ t <= TimeOf(draft[sid]))
                            => inv'[i].pc = "updatePublished"
                        /\ (TimeOf(draft[sid]) < t /\ t <= TimeOf(published[sid]))
                            => inv'[i].outcome = "skippedNotNewer"
                   ELSE inv'[i].outcome = "skippedNotNewer"
                            <=> (TimeOf(draft[sid]) > 0 /\ t <= TimeOf(draft[sid]))
            /\ (inv[i].pc = "updateDraft" /\ inv'[i].outcome = "applied")
                => /\ StatusOf(published'[sid]) = ReportStatus(inv[i].report)
                   /\ StatusOf(draft'[sid]) = ReportStatus(inv[i].report)]_vars

\* C21 witness: a report later than the published row's time and not later
\* than the draft's has passed the rule and is about to be written
C21_Witness ==
    \E i \in Invs :
        /\ inv[i].pc = "updatePublished"
        /\ published[SpringA].exists
        /\ TimeOf(published[SpringA]) > 0
        /\ TimeOf(published[SpringA]) < inv[i].report.reported_at
        /\ inv[i].report.reported_at <= TimeOf(draft[SpringA])

\* ------------------------------------------------------------------ the status mapping
\* invocation i writes in this step
Writes(i) == Len(inv'[i].wrote) = Len(inv[i].wrote) + 1

\* C22 (Spec): every write of an invocation leaves the written row with
\* current_status is_flowing if the report's is_flowing is true and
\* is_not_flowing if it is false, and with status_updated_at = reported_at;
\* no step puts the status unknown into a row, so a row whose status is not
\* unknown never returns to unknown.
C22_StatusMapping ==
    [][/\ \A i \in Invs :
            Writes(i)
                => LET sid == inv[i].springDocumentId
                       row == IF inv[i].pc = "updatePublished"
                              THEN published'[sid] ELSE draft'[sid]
                   IN  /\ inv[i].report.is_flowing => row.current_status = "is_flowing"
                       /\ ~inv[i].report.is_flowing => row.current_status = "is_not_flowing"
                       /\ row.status_updated_at = <<inv[i].report.reported_at>>
       /\ \A sid \in SpringIds :
            /\ (draft[sid].exists /\ draft'[sid] # draft[sid])
                => draft'[sid].current_status \in {"is_flowing", "is_not_flowing"}
            /\ (published[sid].exists /\ published'[sid] # published[sid])
                => published'[sid].current_status \in {"is_flowing", "is_not_flowing"}]_vars

\* C22 witness: a report of no flow was applied to a spring that was
\* flowing; both rows carry is_not_flowing and the report's time
C22_Witness ==
    \E i \in Invs :
        /\ inv[i].outcome = "applied"
        /\ ~inv[i].report.is_flowing
        /\ inv[i].wrote = <<"published", "draft">>
        /\ draft[SpringA].current_status = "is_not_flowing"
        /\ published[SpringA].current_status = "is_not_flowing"
        /\ draft[SpringA].status_updated_at = <<inv[i].report.reported_at>>
        /\ published[SpringA].status_updated_at = <<inv[i].report.reported_at>>

\* ------------------------------------------------------------------ the resolution order
\* what each strategy yields for the event of invocation i (NoId: nothing)
Strategy1(i) ==
    IF inv[i].event.result_spring.kind = "populated"
    THEN inv[i].event.result_spring.documentId ELSE NoId
Strategy2(i) ==
    LET data == inv[i].event.data_spring
    IN  IF data.kind # "object" THEN NoId
        ELSE IF Len(data.documentId) > 0 THEN data.documentId
        ELSE IF Len(data.connect) > 0 THEN data.connect
        ELSE data.set

\* C23 (SpecResolve): the identifier is the one of strategy 1 if it yields
\* one, else the one of strategy 2 (own documentId, else first connect
\* entry, else first set entry) if it yields one; the report is fetched
\* only when both yield nothing, and then the identifier is the fetched
\* report's spring.
C23_ResolutionPriority ==
    \A i \in Invs :
        inv[i].pc # "idle"
            => /\ Strategy1(i) # NoId
                    => (inv[i].springDocumentId = Strategy1(i) /\ inv[i].pc = "findDraft")
               /\ (Strategy1(i) = NoId /\ Strategy2(i) # NoId)
                    => (inv[i].springDocumentId = Strategy2(i) /\ inv[i].pc = "findDraft")
               /\ inv[i].pc = "findReport"
                    <=> (inv[i].springDocumentId = NoId /\ inv[i].outcome = "none")
               /\ (Strategy1(i) = NoId /\ Strategy2(i) = NoId)
                    => \/ inv[i].pc = "findReport"
                       \/ inv[i].outcome \in {"skippedNotLinked", "thrown"}
                       \/ (inv[i].pc = "findDraft"
                            /\ inv[i].springDocumentId = inv[i].report.spring)

\* C23 witness: the result names one spring and the payload's documentId,
\* connect and set entries name others; the result's was taken
C23_Witness ==
    \E i \in Invs :
        /\ inv[i].pc = "findDraft"
        /\ inv[i].event.result_spring = [kind |-> "populated", documentId |-> SpringGone]
        /\ inv[i].event.data_spring.kind = "object"
        /\ inv[i].event.data_spring.documentId = SpringA
        /\ inv[i].springDocumentId = SpringGone

\* ------------------------------------------------------------------ the no-op cases
\* invocation i takes this step
Steps(i) == inv'[i] # inv[i]

\* C24 (Spec): the report fetch is reached from the entry only and the
\* draft fetch from the entry or the report fetch only; an invocation whose
\* fetched report has no spring ends there as not linked, having read and
\* written no spring; an invocation that finds no draft ends there with a
\* warning, without reading the published row and without a write; neither
\* step changes a spring row.
C24_NoOpCases ==
    [][\A i \in Invs :
        /\ (Steps(i) /\ inv'[i].pc = "findReport") => inv[i].pc = "idle"
        /\ (Steps(i) /\ inv'[i].pc = "findDraft") => inv[i].pc \in {"idle", "findReport"}
        /\ (Steps(i) /\ inv[i].pc = "findReport" /\ inv[i].report.spring = NoId
                /\ inv'[i].outcome # "thrown")
            => /\ inv'[i].pc = "done"
               /\ inv'[i].outcome = "skippedNotLinked"
               /\ inv'[i].wrote = <<>>
               /\ UNCHANGED <<draft, published>>
        /\ (Steps(i) /\ inv[i].pc = "findDraft" /\ inv'[i].outcome # "failed"
                /\ ~FindOne(draft, inv[i].springDocumentId).exists)
            => /\ inv'[i].pc = "done"
               /\ inv'[i].outcome = "draftNotFound"
               /\ inv'[i].wrote = <<>>
               /\ UNCHANGED <<draft, published>>
        /\ inv[i].pc = "done" => ~Steps(i)]_vars

\* C24 witness: one invocation ended as not linked and another as draft not
\* found; neither wrote
C24_Witness ==
    \E i, j \in Invs :
        /\ inv[i].outcome = "skippedNotLinked"
        /\ inv[j].outcome = "draftNotFound"
        /\ inv[i].wrote = <<>> /\ inv[j].wrote = <<>>
        /\ inv[j].springDocumentId = SpringGone

\* ------------------------------------------------------------------ the field frame
\* the fields of a row in which the row differs after this step
ChangedFields(before, after) ==
    IF before.exists /\ after.exists
    THEN {f \in DOMAIN before : after[f] # before[f]}
    ELSE IF before = after THEN {} ELSE {"exists"}

\* C25 as stated (SpecSeq): in every step each row of a spring keeps every
\* field other than current_status and status_updated_at.
C25_TwoFieldsOnly ==
    [][\A sid \in SpringIds :
        /\ ChangedFields(draft[sid], draft'[sid])
                \subseteq {"current_status", "status_updated_at"}
        /\ ChangedFields(published[sid], published'[sid])
                \subseteq {"current_status", "status_updated_at"}]_vars

\* C25 amended (SpecSeq): in every step the draft keeps every field other
\* than current_status and status_updated_at; the published row keeps every
\* field other than these two and updatedAt, which a write sets to the time
\* of the write; so the draft's content is never copied to the published
\* row.
C25_FieldFrame ==
    [][\A sid \in SpringIds :
        /\ ChangedFields(draft[sid], draft'[sid])
                \subseteq {"current_status", "status_updated_at"}
        /\ ChangedFields(published[sid], published'[sid])
                \subseteq {"current_status", "status_updated_at", "updatedAt"}
        /\ \A i \in Invs :
            (inv[i].pc = "updatePublished" /\ Writes(i) /\ inv[i].springDocumentId = sid)
                => /\ published'[sid].updatedAt = now
                   /\ published'[sid].name = published[sid].name]_vars

\* C25 witness: a report was applied to both rows of a spring whose draft
\* carries an unpublished edit; the edit is still in the draft only, and the
\* published row carries the time of the write
C25_Witness ==
    \E i \in Invs :
        /\ inv[i].outcome = "applied"
        /\ inv[i].wrote = <<"published", "draft">>
        /\ StatusOf(published[SpringA]) = ReportStatus(inv[i].report)
        /\ StatusOf(draft[SpringA]) = ReportStatus(inv[i].report)
        /\ draft[SpringA].name = "edited name"
        /\ published[SpringA].name = "published name"
        /\ published[SpringA].updatedAt = now

\* ------------------------------------------------------------------ bounded run
\* the position of an invocation along afterCreate: each position from 1 to
\* 5 is one pending store call
Rank(pc) ==
    CASE pc = "idle" -> 0
      [] pc = "findReport" -> 1
      [] pc = "findDraft" -> 2
      [] pc = "findPublished" -> 3
      [] pc \in {"updateDraftOnly", "updatePublished"} -> 4
      [] pc = "updateDraft" -> 5
      [] pc = "done" -> 6

FailureOutcomes == {"thrown", "failed"}

\* C26 (SpecFair): every step of an invocation moves it strictly forward
\* along the report read, the draft read, the published read, the first
\* write and the second write, so that each of these calls is made at most
\* once; the draft-only write and the write after a failed call are followed
\* by the end of the invocation, the draft write is reached after the
\* published write only, an invocation that has ended takes no further step,
\* and, every store call returning or failing, an invocation that has
\* started ends.
C26_BoundedRun ==
    /\ [][\A i \in Invs :
            Steps(i) =>
                /\ Rank(inv'[i].pc) > Rank(inv[i].pc)
                /\ inv[i].pc = "updateDraftOnly" => inv'[i].pc = "done"
                /\ inv'[i].pc = "updateDraft" => inv[i].pc = "updatePublished"
                /\ inv'[i].outcome \in FailureOutcomes => inv'[i].pc = "done"
                /\ Len(inv'[i].wrote) <= Len(inv[i].wrote) + 1
                /\ (inv'[i].wrote # inv[i].wrote) => Rank(inv[i].pc) \in {4, 5}]_vars
    /\ \A i \in Invs : (inv[i].pc # "idle") ~> (inv[i].pc = "done")

\* one invocation has ended after both writes and another has ended on the
\* failure of its draft write, the published write made once
C26_Witness ==
    \E i, j \in Invs :
        /\ inv[i].pc = "done" /\ inv[i].outcome = "applied"
        /\ inv[i].wrote = <<"published", "draft">>
        /\ inv[j].pc = "done" /\ inv[j].outcome = "failed"
        /\ inv[j].wrote = <<"published">>

\* ------------------------------------------------------------------ partial writes
Errors(log) == {k \in DOMAIN log : log[k] = "error: failed to propagate"}

\* invocation i runs again a report whose earlier invocation j ended on the
\* failure of its draft write, the published write made
RepropagatesAfterDraftFailure(i, j) ==
    /\ j < i
    /\ inv[j].pc = "done" /\ inv[j].outcome = "failed"
    /\ inv[j].wrote = <<"published">>
    /\ inv[i].pc # "idle"
    /\ inv[i].report = inv[j].report

\* what the failing write steps do, and the report's values in the
\* published row once its write has returned
FailedWriteSteps(i) ==
    /\ (inv[i].pc = "updatePublished" /\ inv'[i].outcome = "failed")
        => /\ inv'[i].pc = "done"
           /\ inv'[i].wrote = <<>>
           /\ UNCHANGED <<draft, published>>
           /\ Cardinality(Errors(inv'[i].log)) = 1
    /\ inv[i].pc = "updatePublished" => UNCHANGED draft
    /\ (inv[i].pc = "updateDraft" /\ inv'[i].outcome = "failed")
        => /\ inv'[i].pc = "done"
           /\ inv'[i].wrote = <<"published">>
           /\ UNCHANGED <<draft, published>>
           /\ published[inv[i].springDocumentId].current_status
                = NewStatus(inv[i].report.is_flowing)
           /\ published[inv[i].springDocumentId].status_updated_at
                = At(inv[i].report.reported_at)
           /\ Cardinality(Errors(inv'[i].log)) = 1

\* a later run of the report whose draft write had failed changes neither
\* row and, unless a read fails, ends as skipped, not newer
RepropagationSkipped(i) ==
    \A j \in Invs :
        RepropagatesAfterDraftFailure(i, j)
            => /\ UNCHANGED <<draft, published>>
               /\ inv'[i].outcome \in {"none", "thrown", "failed", "skippedNotNewer"}

\* C27 as stated, the last clause read for both cases: after the failure of
\* either write the report is not newer than the published copy, so that a
\* later run of it is skipped
C27_PartialWrites ==
    [][\A i \in Invs :
        Steps(i) =>
            /\ FailedWriteSteps(i)
            /\ RepropagationSkipped(i)
            /\ (inv[i].pc \in {"updatePublished", "updateDraft"} /\ inv'[i].outcome = "failed")
                => NotNewer(inv[i].report.reported_at, published'[inv[i].springDocumentId])]_vars

\* C27 (SpecSeq): a failed published write ends the invocation with the
\* draft write not called, both rows unchanged and one error logged; a
\* failed draft write ends it with the published row holding the report's
\* status and time, the draft row unchanged, one error logged and the report
\* not newer than the published row; a later run of the report whose draft
\* write had failed changes neither row and, unless a read fails, ends as
\* skipped, not newer.
C27_PartialWritesDraftCase ==
    [][\A i \in Invs :
        Steps(i) =>
            /\ FailedWriteSteps(i)
            /\ RepropagationSkipped(i)
            /\ (inv[i].pc = "updateDraft" /\ inv'[i].outcome = "failed")
                => NotNewer(inv[i].report.reported_at, published'[inv[i].springDocumentId])]_vars

\* the report whose draft write failed has been run again and skipped,
\* the draft still behind the published row
C27_Witness ==
    \E i, j \in Invs :
        /\ j < i
        /\ inv[j].pc = "done" /\ inv[j].outcome = "failed"
        /\ inv[j].wrote = <<"published">>
        /\ inv[i].pc = "done" /\ inv[i].report = inv[j].report
        /\ inv[i].outcome = "skippedNotNewer"
        /\ published[SpringA].status_updated_at = At(inv[j].report.reported_at)
        /\ draft[SpringA].status_updated_at # published[SpringA].status_updated_at

\* ------------------------------------------------------------------ monotonic status time
\* the status time of a row does not go back: it does not decrease and does
\* not become null once set
NotEarlier(before, after) ==
    (before.exists /\ before.status_updated_at # Null)
        => /\ after.exists
           /\ after.status_updated_at # Null
           /\ after.status_updated_at[1] >= before.status_updated_at[1]

\* the published half of C28 (SpecSeq): no step takes the status time of a
\* published row back
C28_PublishedMonotonic ==
    [][\A s \in DOMAIN published : NotEarlier(published[s], published'[s])]_vars

\* C28 (SpecSeq): in propagations run one after another no step takes the
\* status time of the published row or of the draft row of a spring back.
C28_MonotonicStatusTime ==
    [][/\ \A s \in DOMAIN published : NotEarlier(published[s], published'[s])
       /\ \A s \in DOMAIN draft : NotEarlier(draft[s], draft'[s])]_vars

\* ------------------------------------------------------------------ replay window
\* the outcome of the policy for `request` at clock value t, the spring
\* lookup returning the published row
OutcomeAt(request, t) ==
    LET checked == PolicyChecks(request, hmacSecret, t)
    IN  IF checked.result = "lookup"
        THEN GeoFence(request, DocumentsFindOne(published, request.spring)).result
        ELSE checked.result

\* the request that has just been answered is accepted at a clock value not
\* later than the one it was answered at
AcceptedEarlier ==
    \E c \in Clocks : c <= auth.clock /\ OutcomeAt(auth.request, c) = "accept"

\* the request that has just been answered is too old at a clock value not
\* later than the one it was answered at
ExpiredEarlier ==
    LET timestamp == ParseInt(auth.request.timestampHeader)
    IN  \E c \in Clocks :
            /\ c <= auth.clock
            /\ ~timestamp.nan
            /\ c - timestamp.n > TIMESTAMP_MAX_AGE_SECONDS
            /\ PolicyChecks(auth.request, hmacSecret, c).reason = "timestamp expired or invalid"

WindowEnd == ParseInt(auth.request.timestampHeader).n + TIMESTAMP_MAX_AGE_SECONDS

BindHeaders == {<<"1">>, <<"2">>, <<"1", ":", "a">>, <<"1", ":", "b">>}
BindSprings == {SpringA, SpringGone, <<"a", ":", "a">>, <<"a", ":", "b">>}
BindPairs == BindHeaders \X BindSprings

\* a signature a client holds: the digest, under the server's key, of the
\* payload of one pair
BindSignatures ==
    {GenerateExpectedSignature(p[1], p[2], ServerSecret) : p \in BindPairs}

\* a POST /reports request reaches the policy with a signature made for
\* some pair, its own or another: policy lines 63-159
AuthenticateSigned ==
    /\ auth.pc = "idle"
    /\ \E p \in BindPairs, signature \in BindSignatures,
          position \in {<<Undefined, Undefined>>, <<Coord(1000), Coord(0)>>} :
            auth' = PolicyEntered([signature |-> signature,
                                   timestampHeader |-> p[1],
                                   spring |-> p[2],
                                   user_lat |-> position[1],
                                   user_lng |-> position[2]])
    /\ UNCHANGED <<draft, published, inv, now, hmacSecret, user, call>>

NextBind ==
    \/ Tick
    \/ AuthenticateSigned
    \/ AuthFindSpring
    \/ AuthReturn

\* the policy alone, on requests that carry signatures of one another
SpecBind == InitAuth /\ [][NextBind]_vars

\* the request answered, sent with another timestamp header and spring
\* under the same signature
Resent(h, s) == [auth.request EXCEPT !.timestampHeader = h, !.spring = s]

HasColon(str) == \E k \in DOMAIN str : str[k] = ":"

\* the pairs, other than the one of the request answered, with which the
\* signature of that request is accepted at some clock value
OtherPairsAccepted ==
    {p \in BindPairs :
        /\ p # <<auth.request.timestampHeader, auth.request.spring>>
        /\ \E c \in Clocks : OutcomeAt(Resent(p[1], p[2]), c) = "accept"}

\* C31 (SpecBind): the signature of an accepted request is accepted with no
\* other pair of timestamp header and spring identifier under the same
\* secret, at any clock value.
C31_SignatureBinding ==
    (auth.pc = "done" /\ auth.result = "accept") => OtherPairsAccepted = {}

\* the part of C31 that holds (SpecBind): the signature of an accepted
\* request is accepted with no other pair in which the timestamp header
\* carries no colon
C31_BindingWithoutColon ==
    (auth.pc = "done" /\ auth.result = "accept" /\ ~HasColon(auth.request.timestampHeader))
        => \A p \in OtherPairsAccepted : HasColon(p[1])

\* ------------------------------------------------------------------ gate and propagator
\* the spring of the request answered is one the propagator updates: its
\* draft lookup (lifecycles.ts 116-129) finds a row
PropagatorUpdates == DocumentsFindOne(draft, auth.request.spring).exists

\* the position of the request answered is within MAX_DISTANCE_METERS of
\* the spring's coordinates
InRange ==
    LET spring == FindOne(draft, auth.request.spring)
        distance == HaversineDistance(ToNumber(auth.request.user_lat),
                                      ToNumber(auth.request.user_lng),
                                      Num(spring.lat), Num(spring.lng))
    IN  spring.exists /\ ~distance.nan /\ distance.n <= MAX_DISTANCE_METERS

\* C32 (SpecGate): a correctly signed, fresh request with both coordinates,
\* in range of a spring the propagator updates, is accepted whenever its
\* spring lookup returns.
C32_GatePropagatorAgree ==
    (auth.pc = "done" /\ PassedSignatureCheck /\ BothCoordinates /\ auth.result # "thrown"
        /\ PropagatorUpdates /\ InRange)
        => auth.result = "accept"

\* the first half of C32, which holds (SpecGate): for a spring with a draft
\* and no published row a correctly signed request with both coordinates is
\* rejected as spring not found whenever the lookup returns, and the same
\* request without coordinates is accepted; the draft-only write of a
\* propagation puts the report's status and time into the draft and leaves
\* the spring without a published row
C32_DraftOnlySpring ==
    [][/\ (auth'.pc = "done" /\ PassedSignatureCheck' /\ auth'.result # "thrown"
            /\ FindOne(draft, auth'.request.spring).exists
            /\ ~FindOne(published, auth'.request.spring).exists)
            => IF BothCoordinates'
               THEN auth'.result = "reject" /\ auth'.reason = "spring not found"
               ELSE auth'.result = "accept"
       /\ \A i \in Invs :
            (inv[i].pc = "updateDraftOnly" /\ inv'[i].outcome = "applied"
                /\ Matches(draft[inv[i].springDocumentId],
                           Middleware([uid |-> SPRING_UID, action |-> "update",
                                       params |-> [documentId |-> inv[i].springDocumentId]],
                                      user).params))
                => /\ draft'[inv[i].springDocumentId].current_status
                        = NewStatus(inv[i].report.is_flowing)
                   /\ draft'[inv[i].springDocumentId].status_updated_at
                        = At(inv[i].report.reported_at)
                   /\ ~published'[inv[i].springDocumentId].exists]_vars

\* a report for a spring with a draft and no published row, accepted without
\* coordinates, has been propagated to the draft
C32_DraftOnlyPropagated ==
    \E i \in Invs :
        /\ inv[i].pc = "done" /\ inv[i].outcome = "applied"
        /\ inv[i].wrote = <<"draft">>
        /\ ~published[SpringA].exists
        /\ draft[SpringA].status_updated_at = At(inv[i].report.reported_at)

====
